---- MODULE Spec2Model ----
(***************************************************************************)
(* The `light` command group of the lifx command-line client               *)
(* (cmd/lifx/light.go): `light list`, `light power <on|off>` and           *)
(* `light color`, dispatching to the golifx client library.  The library   *)
(* is an external collaborator: its registry of discovered lights is the   *)
(* variable known, and every call the commands make on it is appended to   *)
(* the log calls.                                                          *)
(***************************************************************************)
EXTENDS Integers, Sequences, FiniteSets, TLC

\* Bounds of the model.
MaxIDs == 2
MaxLabels == 2
MaxTicks == 2

\* The lights that exist on the network, and the label each one carries.
Lights == {1, 2}
LabelOf == [l \in Lights |-> IF l = 1 THEN "a" ELSE "b"]

\* Values the --id and --label flags are drawn from (3 and "zz" name no light).
RequestIDs == {1, 2, 3}
RequestLabels == {"a", "b", "zz"}

\* Sample values of the uint16 colour components and of the duration.
ColorValues == {0, 1}
DurationValues == {0, 1}

\* Positional arguments given to the sub-command.
ArgLists == {<<>>, <<"on">>, <<"off">>, <<"ON">>, <<"off", "on">>}

VARIABLES
    cmd,                  \* the sub-command cobra dispatches to
    args,                 \* its positional arguments
    flagLightIDs,         \* --id
    flagLightLabels,      \* --label
    flagLightHue, flagLightSaturation, flagLightBrightness, flagLightKelvin,
    flagLightDuration,
    pc,                   \* position of the running command
    state,                \* lightPower's local `state`
    lights,               \* the local slice `lights`
    idx,                  \* index of the range loop in progress
    timeout,              \* the time.After channel: pending, fired, received
    tickReady,            \* the time.Tick channel holds a tick
    timedOut,             \* lightList's local `timedOut`
    printed,              \* IDs of the rows written to the table
    fatalMsg,             \* message of the logger.Fatal call that ended the run
    known,                \* lights the client library has discovered
    calls                 \* log of the calls made on the client library

vars == <<cmd, args, flagLightIDs, flagLightLabels, flagLightHue,
          flagLightSaturation, flagLightBrightness, flagLightKelvin,
          flagLightDuration, pc, state, lights, idx, timeout, tickReady,
          timedOut, printed, fatalMsg, known, calls>>

flags == <<cmd, args, flagLightIDs, flagLightLabels, flagLightHue,
           flagLightSaturation, flagLightBrightness, flagLightKelvin,
           flagLightDuration>>

listVars == <<timeout, tickReady, timedOut, printed>>

----------------------------------------------------------------------------
\* Helpers

SeqsUpTo(S, n) == UNION {[1..k -> S] : k \in 0..n}

\* The orders in which the library may return the set S of lights.
Orders(S) == {s \in [1..Cardinality(S) -> S] : \A l \in S : \E k \in DOMAIN s : s[k] = l}

NoColor == <<0, 0, 0, 0>>

\* One entry of the call log.  light is the receiver of a per-light call
\* (0 for a call on the client); ok is FALSE when the call returned an error.
Call(op, light, id, label, st, color, duration, ok) ==
    [op |-> op, light |-> light, id |-> id, label |-> label, state |-> st,
     color |-> color, duration |-> duration, ok |-> ok]

CallGetLightByID(id, light, ok) == Call("GetLightByID", light, id, "", FALSE, NoColor, 0, ok)
CallGetLightByLabel(label, light, ok) == Call("GetLightByLabel", light, 0, label, FALSE, NoColor, 0, ok)
CallGetLights(ok) == Call("GetLights", 0, 0, "", FALSE, NoColor, 0, ok)
CallSetPower(op, light, st) == Call(op, light, 0, "", st, NoColor, 0, TRUE)
CallSetColor(op, light, color, duration) == Call(op, light, 0, "", FALSE, color, duration, TRUE)

\* common.Color{Hue, Saturation, Brightness, Kelvin} built from the flags.
FlagColor == <<flagLightHue, flagLightSaturation, flagLightBrightness, flagLightKelvin>>

\* logger.Fatal*: the process exits.
Fatal(msg) == pc' = "fatal" /\ fatalMsg' = msg

\* Where getLights starts: the ID loop, the label loop, or straight to return.
GetLightsEntry ==
    IF Len(flagLightIDs) > 0 THEN "ids"
    ELSE IF Len(flagLightLabels) > 0 THEN "labels"
    ELSE "apply"

----------------------------------------------------------------------------
Init ==
    /\ cmd \in {"list", "power", "color"}
    /\ args \in (IF cmd = "power" THEN ArgLists ELSE {<<>>})
    /\ flagLightIDs \in SeqsUpTo(RequestIDs, MaxIDs)
    /\ flagLightLabels \in SeqsUpTo(RequestLabels, MaxLabels)
    \* the colour flags are registered on `light color` only
    /\ flagLightHue \in (IF cmd = "color" THEN ColorValues ELSE {0})
    /\ flagLightSaturation \in (IF cmd = "color" THEN ColorValues ELSE {0})
    /\ flagLightBrightness \in (IF cmd = "color" THEN ColorValues ELSE {0})
    /\ flagLightKelvin \in (IF cmd = "color" THEN ColorValues ELSE {0})
    /\ flagLightDuration \in (IF cmd = "color" THEN DurationValues ELSE {0})
    /\ pc = "start"
    /\ state = FALSE
    /\ lights = <<>>
    /\ idx = 1
    /\ timeout = "pending"
    /\ tickReady = FALSE
    /\ timedOut = FALSE
    /\ printed = <<>>
    /\ fatalMsg = ""
    /\ known \in SUBSET Lights
    /\ calls = <<>>

----------------------------------------------------------------------------
\* The client library discovers one more light.
Discover ==
    /\ pc \notin {"done", "fatal"}
    /\ \E l \in Lights \ known : known' = known \cup {l}
    /\ UNCHANGED <<flags, pc, state, lights, idx, listVars, fatalMsg, calls>>

----------------------------------------------------------------------------
\* light power

\* Mutant: the switch has no default case, an unknown state means off.
lightPowerArgs_NoDefault ==
    /\ cmd = "power" /\ pc = "start"
    /\ IF Len(args) < 1
         THEN Fatal("Missing state (on|off)") /\ UNCHANGED state
         ELSE state' = (args[1] = "on") /\ pc' = GetLightsEntry /\ UNCHANGED fatalMsg
    /\ UNCHANGED <<flags, lights, idx, listVars, known, calls>>

\* lightPower up to the call of getLights: the argument checks.
lightPowerArgs ==
    /\ cmd = "power" /\ pc = "start"
    /\ IF Len(args) < 1
         THEN Fatal("Missing state (on|off)") /\ UNCHANGED state
       ELSE IF args[1] = "on"
         THEN state' = TRUE /\ pc' = GetLightsEntry /\ UNCHANGED fatalMsg
       ELSE IF args[1] = "off"
         THEN state' = FALSE /\ pc' = GetLightsEntry /\ UNCHANGED fatalMsg
       ELSE Fatal("Invalid power state requested") /\ UNCHANGED state
    /\ UNCHANGED <<flags, lights, idx, listVars, known, calls>>

\* light color

\* lightColor up to the call of getLights: the colour check.
lightColorArgs ==
    /\ cmd = "color" /\ pc = "start"
    /\ IF flagLightHue = 0 /\ flagLightSaturation = 0 /\ flagLightBrightness = 0 /\ flagLightKelvin = 0
         THEN Fatal("Missing color definition")
         ELSE pc' = GetLightsEntry /\ UNCHANGED fatalMsg
    /\ UNCHANGED <<flags, state, lights, idx, listVars, known, calls>>

----------------------------------------------------------------------------
\* getLights

\* Mutant: an ID that does not resolve is logged and skipped.
getLightsByID_SkipMissing ==
    /\ pc = "ids"
    /\ LET id == flagLightIDs[idx] IN
         /\ lights' = IF id \in known THEN Append(lights, id) ELSE lights
         /\ calls' = Append(calls, CallGetLightByID(id, IF id \in known THEN id ELSE 0, id \in known))
         /\ IF idx < Len(flagLightIDs)
              THEN idx' = idx + 1 /\ pc' = "ids"
              ELSE idx' = 1 /\ pc' = (IF Len(flagLightLabels) > 0 THEN "labels" ELSE "apply")
    /\ UNCHANGED <<flags, state, listVars, known, fatalMsg>>

\* One iteration of the loop over flagLightIDs.
getLightsByID ==
    /\ pc = "ids"
    /\ LET id == flagLightIDs[idx] IN
       IF id \in known
         THEN /\ lights' = Append(lights, id)
              /\ calls' = Append(calls, CallGetLightByID(id, id, TRUE))
              /\ IF idx < Len(flagLightIDs)
                   THEN idx' = idx + 1 /\ pc' = "ids"
                   ELSE idx' = 1 /\ pc' = (IF Len(flagLightLabels) > 0 THEN "labels" ELSE "apply")
              /\ UNCHANGED fatalMsg
         ELSE /\ calls' = Append(calls, CallGetLightByID(id, 0, FALSE))
              /\ Fatal("Could not find light with ID")
              /\ UNCHANGED <<lights, idx>>
    /\ UNCHANGED <<flags, state, listVars, known>>

\* One iteration of the loop over flagLightLabels.
getLightsByLabel ==
    /\ pc = "labels"
    /\ LET label == flagLightLabels[idx]
           found == {l \in known : LabelOf[l] = label} IN
       IF found # {}
         THEN /\ \E l \in found :
                   /\ lights' = Append(lights, l)
                   /\ calls' = Append(calls, CallGetLightByLabel(label, l, TRUE))
              /\ IF idx < Len(flagLightLabels)
                   THEN idx' = idx + 1 /\ pc' = "labels"
                   ELSE idx' = 1 /\ pc' = "apply"
              /\ UNCHANGED fatalMsg
         ELSE /\ calls' = Append(calls, CallGetLightByLabel(label, 0, FALSE))
              /\ Fatal("Could not find light with label")
              /\ UNCHANGED <<lights, idx>>
    /\ UNCHANGED <<flags, state, listVars, known>>

----------------------------------------------------------------------------
\* The setter loops of lightPower and lightColor

\* The call light.SetPower(state) or light.SetColor(color, flagLightDuration).
LightSetterCall(light) ==
    IF cmd = "power"
      THEN CallSetPower("Light.SetPower", light, state)
      ELSE CallSetColor("Light.SetColor", light, FlagColor, flagLightDuration)

\* The call client.SetPower(state) or client.SetColor(color, flagLightDuration).
ClientSetterCall ==
    IF cmd = "power"
      THEN CallSetPower("Client.SetPower", 0, state)
      ELSE CallSetColor("Client.SetColor", 0, FlagColor, flagLightDuration)

\* Mutant: the loop returns after its first iteration.
setEachLight_FirstOnly ==
    /\ cmd \in {"power", "color"} /\ pc = "apply"
    /\ Len(lights) > 0
    /\ calls' = Append(calls, LightSetterCall(lights[idx]))
    /\ idx' = idx /\ pc' = "done"
    /\ UNCHANGED <<flags, state, lights, listVars, fatalMsg, known>>

\* len(lights) > 0: one iteration of the loop over lights.
setEachLight ==
    /\ cmd \in {"power", "color"} /\ pc = "apply"
    /\ Len(lights) > 0
    /\ calls' = Append(calls, LightSetterCall(lights[idx]))
    /\ IF idx < Len(lights)
         THEN idx' = idx + 1 /\ pc' = "apply"
         ELSE idx' = idx /\ pc' = "done"
    /\ UNCHANGED <<flags, state, lights, listVars, fatalMsg, known>>

\* Mutant: the else branch is missing.
setAllLights_NoElse ==
    /\ cmd \in {"power", "color"} /\ pc = "apply"
    /\ ~(Len(lights) > 0)
    /\ pc' = "done"
    /\ UNCHANGED <<flags, state, lights, idx, listVars, fatalMsg, known, calls>>

\* else: the client-wide setter.
setAllLights ==
    /\ cmd \in {"power", "color"} /\ pc = "apply"
    /\ ~(Len(lights) > 0)
    /\ calls' = Append(calls, ClientSetterCall)
    /\ pc' = "done"
    /\ UNCHANGED <<flags, state, lights, idx, listVars, fatalMsg, known>>

----------------------------------------------------------------------------
\* light list

\* lightList up to the loop: the two timers are created.
lightListStart ==
    /\ cmd = "list" /\ pc = "start"
    /\ pc' = "poll"
    /\ UNCHANGED <<flags, state, lights, idx, listVars, fatalMsg, known, calls>>

\* The time.After(flagTimeout) timer fires.
timeoutFires ==
    /\ pc = "poll" /\ timeout = "pending"
    /\ timeout' = "fired"
    /\ UNCHANGED <<flags, pc, state, lights, idx, tickReady, timedOut, printed,
                   fatalMsg, known, calls>>

NumGetLights == Len(SelectSeq(calls, LAMBDA c : c.op = "GetLights"))

\* The 100ms ticker delivers a tick.
tickFires ==
    /\ pc = "poll" /\ ~tickReady
    /\ NumGetLights < MaxTicks
    /\ tickReady' = TRUE
    /\ UNCHANGED <<flags, pc, state, lights, idx, timeout, timedOut, printed,
                   fatalMsg, known, calls>>

\* case <-tick: poll the client for the discovered lights.
pollTick ==
    /\ pc = "poll" /\ tickReady
    /\ tickReady' = FALSE
    /\ \/ \* err == nil, or ErrNotFound when nothing is discovered yet
          /\ lights' \in Orders(known)
          /\ calls' = Append(calls, CallGetLights(known # {}))
          /\ UNCHANGED <<pc, fatalMsg>>
       \/ \* any other error
          /\ lights' = <<>>
          /\ calls' = Append(calls, CallGetLights(FALSE))
          /\ Fatal("Could not find lights")
    /\ UNCHANGED <<flags, state, idx, timeout, timedOut, printed, known>>

\* Mutant: the `break` leaves the select only, and nothing leaves the loop.
pollTimeout_NoLoopExit ==
    /\ pc = "poll" /\ timeout = "fired"
    /\ timeout' = "received"
    /\ IF Len(lights) = 0
         THEN Fatal("No lights found") /\ UNCHANGED timedOut
         ELSE timedOut' = TRUE /\ UNCHANGED <<pc, fatalMsg>>
    /\ UNCHANGED <<flags, state, lights, idx, tickReady, printed, known, calls>>

\* case <-timeout, followed by the `if timedOut` that leaves the loop.
pollTimeout ==
    /\ pc = "poll" /\ timeout = "fired"
    /\ timeout' = "received"
    /\ IF Len(lights) = 0
         THEN Fatal("No lights found") /\ UNCHANGED <<timedOut, idx>>
         ELSE timedOut' = TRUE /\ pc' = "print" /\ idx' = 1 /\ UNCHANGED fatalMsg
    /\ UNCHANGED <<flags, state, lights, tickReady, printed, known, calls>>

\* One iteration of the loop over lights: a row, unless an accessor fails.
printRow ==
    /\ pc = "print" /\ idx <= Len(lights)
    /\ \E accessorsOK \in BOOLEAN :
         printed' = IF accessorsOK THEN Append(printed, lights[idx]) ELSE printed
    /\ idx' = idx + 1
    /\ UNCHANGED <<flags, pc, state, lights, timeout, tickReady, timedOut,
                   fatalMsg, known, calls>>

\* table.Flush() and return.
listFlush ==
    /\ pc = "print" /\ idx > Len(lights)
    /\ pc' = "done"
    /\ UNCHANGED <<flags, state, lights, idx, listVars, fatalMsg, known, calls>>

----------------------------------------------------------------------------
Next ==
    \/ Discover
    \/ lightPowerArgs
    \/ lightColorArgs
    \/ getLightsByID
    \/ getLightsByLabel
    \/ setEachLight
    \/ setAllLights
    \/ lightListStart
    \/ timeoutFires
    \/ tickFires
    \/ pollTick
    \/ pollTimeout
    \/ printRow
    \/ listFlush

Spec == Init /\ [][Next]_vars

\* The select is fair to the timeout channel: once the timer has fired its
\* case stays ready, and a ready case is eventually chosen.
LiveSpec == Spec /\ WF_vars(pollTimeout)

----------------------------------------------------------------------------
\* Vocabulary of the properties

Terminated == pc \in {"done", "fatal"}
SetterCommand == cmd \in {"power", "color"}
Requested == Len(flagLightIDs) + Len(flagLightLabels)
NoSelection == flagLightIDs = <<>> /\ flagLightLabels = <<>>

LookupCalls == SelectSeq(calls, LAMBDA c : c.op \in {"GetLightByID", "GetLightByLabel"})
LightSetCalls == SelectSeq(calls, LAMBDA c : c.op \in {"Light.SetPower", "Light.SetColor"})
ClientSetCalls == SelectSeq(calls, LAMBDA c : c.op \in {"Client.SetPower", "Client.SetColor"})
SetPowerCalls == SelectSeq(calls, LAMBDA c : c.op \in {"Light.SetPower", "Client.SetPower"})

\* The state named on the command line is on or off.
PowerArgValid == Len(args) >= 1 /\ args[1] \in {"on", "off"}

\* The client-wide call the command line asks for.
RequestedClientCall ==
    IF cmd = "power"
      THEN CallSetPower("Client.SetPower", 0, args[1] = "on")
      ELSE CallSetColor("Client.SetColor", 0, FlagColor, flagLightDuration)

\* The per-light call the command line asks for.
RequestedLightCall(light) ==
    IF cmd = "power"
      THEN CallSetPower("Light.SetPower", light, args[1] = "on")
      ELSE CallSetColor("Light.SetColor", light, FlagColor, flagLightDuration)

\* Every requested ID and label has been looked up, and every lookup succeeded.
AllResolved ==
    /\ Len(LookupCalls) = Requested
    /\ \A k \in DOMAIN LookupCalls : LookupCalls[k].ok

\* Some lookup returned an error.
LookupFailed == \E k \in DOMAIN LookupCalls : ~LookupCalls[k].ok

\* The lights the ID and label flags select.
Selected ==
    {l \in Lights : \/ \E k \in DOMAIN flagLightIDs : flagLightIDs[k] = l
                    \/ \E k \in DOMAIN flagLightLabels : flagLightLabels[k] = LabelOf[l]}

----------------------------------------------------------------------------
\* C1 as stated: with no --id and no --label, a finished `light power <on|off>`
\* or `light color` has made exactly one call, the client-wide setter with the
\* requested state or colour.
C1_AllLightsAlways ==
    (SetterCommand /\ NoSelection /\ Terminated /\ (cmd = "power" => PowerArgValid))
        => calls = <<RequestedClientCall>>

\* C1 (amended): with no --id and no --label, `light power <on|off>`, and
\* `light color` with a colour that is not all zero, make no lookup and no
\* per-light call, and finish having made exactly one call: the client-wide
\* setter with the requested state or colour.
C1_AllLights ==
    (/\ SetterCommand /\ NoSelection
     /\ cmd = "power" => PowerArgValid
     /\ cmd = "color" => FlagColor # NoColor)
        => /\ LookupCalls = <<>>
           /\ LightSetCalls = <<>>
           /\ pc # "fatal"
           /\ calls = (IF pc = "done" THEN <<RequestedClientCall>> ELSE <<>>)

C1_Witness ==
    /\ cmd = "color" /\ NoSelection /\ pc = "done"
    /\ calls = <<RequestedClientCall>>

\* C2: when at least one ID or label is given and every one of them has
\* resolved, the per-light setter is called once per requested entry, IDs
\* first and labels after, each in flag order, with the requested state or
\* colour; the client-wide setter is never called when an ID or label is given.
C2_SelectedOnly ==
    (SetterCommand /\ Requested > 0)
        => /\ ClientSetCalls = <<>>
           /\ AllResolved =>
                /\ pc \in {"apply", "done"}
                /\ Len(lights) = Requested
                /\ \A k \in DOMAIN flagLightIDs : lights[k] = flagLightIDs[k]
                /\ \A k \in DOMAIN flagLightLabels :
                       LabelOf[lights[Len(flagLightIDs) + k]] = flagLightLabels[k]
                /\ Len(LightSetCalls) <= Requested
                /\ \A k \in DOMAIN LightSetCalls :
                       LightSetCalls[k] = RequestedLightCall(lights[k])
                /\ pc = "done" => Len(LightSetCalls) = Requested

C2_Witness ==
    /\ cmd = "power" /\ pc = "done"
    /\ flagLightIDs = <<2, 1>> /\ flagLightLabels = <<"a">>
    /\ Len(LightSetCalls) = 3
    /\ LightSetCalls[1].light = 2 /\ LightSetCalls[2].light = 1 /\ LightSetCalls[3].light = 1

\* C3: when IDs or labels are given, `light list` prints rows only for the
\* lights they select.
C3_ListRestricted ==
    (cmd = "list" /\ Requested > 0)
        => \A k \in DOMAIN printed : printed[k] \in Selected

C5_PowerState ==
    cmd = "power"
        => IF PowerArgValid
             THEN \A k \in DOMAIN SetPowerCalls : SetPowerCalls[k].state = (args[1] = "on")
             ELSE /\ calls = <<>>
                  /\ pc \in {"start", "fatal"}

C5_Witness ==
    /\ cmd = "power" /\ pc = "done" /\ args = <<"off", "on">>
    /\ Len(SetPowerCalls) = 2

\* C6: when a requested ID or label fails to resolve, `light power` and
\* `light color` end fatally with no setter called, per light or client-wide.
C6_AllOrNothing ==
    (SetterCommand /\ LookupFailed)
        => /\ pc = "fatal"
           /\ LightSetCalls = <<>>
           /\ ClientSetCalls = <<>>

C6_Witness ==
    /\ SetterCommand /\ LookupFailed /\ pc = "fatal"
    /\ Len(lights) >= 1

====
